---- MODULE Spec2Model ----
(***************************************************************************)
(* State-machine model of the OXRS RFID reader firmware (PN532 variant):   *)
(* the poll scheduler of loop(), the dedup tracker of processPN532(), the  *)
(* configuration callback jsonConfig() and the hex codec toHexString().    *)
(***************************************************************************)
EXTENDS Integers, Sequences, FiniteSets, TLC

(***************************************************************************)
(* Program constants                                                       *)
(***************************************************************************)
MAX_UID_BYTES == 8
DEFAULT_TAG_READ_INTERVAL_MS == 200
\* upper end of the interval range announced by setConfigSchema
SCHEMA_MAXIMUM == 60000
\* setup() sleeps this long before loop() runs for the first time
SETUP_DELAY_MS == 1000

(***************************************************************************)
(* Bounds of the model                                                     *)
(***************************************************************************)
\* how many times the environment lets time pass: in the runs that explore
\* the timer, and in the runs that explore the tags
MaxAdvances == 3
MaxTicks == 5
\* how many records the message of a tag has at most
MaxRecords == 2

(***************************************************************************)
(* uint32_t values.  TLC's integers are narrower than 2^32, so a uint32_t  *)
(* is kept as two 16-bit halves and the arithmetic is done with carry and  *)
(* borrow, modulo 2^32 as on the target.                                   *)
(***************************************************************************)
Half == 256 * 256

U32(h, l) == [hi |-> h, lo |-> l]

\* a non-negative number below 2^31 as a uint32_t
FromInt(n) == U32(n \div Half, n % Half)

Add32(a, b) ==
    LET l == a.lo + b.lo
        h == a.hi + b.hi + (l \div Half)
    IN  U32(h % Half, l % Half)

\* a difference that is 0 when the clock is behind the time it is compared to
Sub32Clamp(a, b) ==
    IF a.hi < b.hi \/ (a.hi = b.hi /\ a.lo < b.lo)
    THEN [hi |-> 0, lo |-> 0]
    ELSE [hi |-> (a.hi - b.hi - (IF a.lo < b.lo THEN 1 ELSE 0)) % Half,
          lo |-> (a.lo - b.lo) % Half]

Sub32(a, b) ==
    LET l == a.lo - b.lo
        borrow == IF l < 0 THEN 1 ELSE 0
        h == a.hi - b.hi - borrow
    IN  U32(h % Half, l % Half)

Gt32(a, b) == a.hi > b.hi \/ (a.hi = b.hi /\ a.lo > b.lo)

Geq32(a, b) == a = b \/ Gt32(a, b)

\* time that really passed, which does not wrap: a uint32_t and a flag that
\* is set once 2^32 ms or more have passed
Real(v, o) == [v |-> v, over |-> o]

AddReal(r, d) ==
    LET s == Add32(r.v, d)
    IN  Real(s, r.over \/ Gt32(r.v, s))

RealGt(r, b) == r.over \/ Gt32(r.v, b)

(***************************************************************************)
(* Inputs                                                                  *)
(***************************************************************************)
NoTag == <<>>

\* 8-byte patterns the identifiers of the tags are cut from
ZeroPattern == <<0, 0, 0, 0, 0, 0, 0, 0>>
PatternA == <<4, 162, 92, 123, 17, 34, 51, 68>>
PatternB == <<4, 162, 92, 123, 0, 0, 0, 0>>
PatternC == <<222, 173, 190, 239, 17, 34, 51, 68>>
PatternD == <<4, 162, 92, 123, 17, 34, 51, 69>>

\* identifier lengths: 4 and 7 bytes are what the reader reports for the
\* common tags, 8 is the size of the buffers
UidLengths == {4, 7, 8}

Tags ==
    { SubSeq(p, 1, n) : p \in {ZeroPattern, PatternA, PatternB, PatternC,
                               PatternD},
                        n \in UidLengths }

\* the one tag of the runs that explore the timer
OneTag == { SubSeq(PatternA, 1, 4) }

\* milliseconds that pass between two steps of the program
Deltas ==
    { FromInt(1), FromInt(200), FromInt(201), U32(65535, 64336) }

\* a regular tick, longer than the default interval
RegularDelta == { FromInt(201) }

\* milliseconds processPN532 takes (tagPresent waits up to 5 ms)
PollDurations == { FromInt(0), FromInt(5) }

\* values of the "tagReadIntervalMs" key of a configuration message, as
\* uint32_t: 0, 200, 60000, 60001 and 4294967295
ConfigValues ==
    { FromInt(0), FromInt(200), FromInt(60000), FromInt(60001),
      U32(65535, 65535) }

\* bytes the short inputs of the codec are made of
SampleBytes == { 0, 10, 31, 32, 46, 127, 128, 255 }

\* a run of n bytes that takes every byte value
Ramp(n) == [ i \in 1..n |-> (i * 37) % 256 ]

\* identifiers handed to toHexString by publishTag
HexUids == Tags \cup { <<b>> : b \in SampleBytes }

\* record payloads handed to toHexString by publishTag: the reader reports
\* their length, the buffer of 1024 characters holds the digits of 511 bytes
HexPayloads ==
    { <<>> } \cup { <<a, b>> : a \in SampleBytes, b \in SampleBytes }
             \cup { Ramp(n) : n \in {255, 256, 300, 511} }

\* data blocks handed to toHexString by publishCard: whole reads of 16 bytes
HexBlocks == { Ramp(n) : n \in {0, 16, 32, 48} }

\* records of a tag's message as the message buffer has them: the payload
\* length the record claims and the payload bytes the buffer holds for it
GoodRecord ==
    [ tnf |-> 1, type |-> "T", id |-> "", size |-> 6, claimed |-> 2,
      bytes |-> <<72, 105>> ]

EmptyRecord ==
    [ tnf |-> 0, type |-> "", id |-> "", size |-> 3, claimed |-> 0,
      bytes |-> <<>> ]

ShortRecord ==
    [ tnf |-> 1, type |-> "U", id |-> "", size |-> 8, claimed |-> 4,
      bytes |-> <<72, 105>> ]

RecordShapes == { GoodRecord, EmptyRecord, ShortRecord }

Messages ==
    UNION { [ 1..n -> RecordShapes ] : n \in 0..MaxRecords }

\* what is read in place of payload bytes the message buffer does not hold
StrayBytes == { 0, 255 }

\* tags handed to publishTag
NfcTags ==
    { [ reader |-> "pn532", uid |-> u, type |-> "NFC Forum Type 2",
        hasNdef |-> h, records |-> m ] :
        u \in { SubSeq(PatternA, 1, 4), SubSeq(PatternA, 1, 7) },
        h \in BOOLEAN, m \in Messages }

\* an attempt of MIFARE_Read: a failure, or 16 bytes of data and 2 of CRC
ReadFail == <<>>

ReadResults ==
    { ReadFail, [ i \in 1..18 |-> i ], [ i \in 1..18 |-> 255 - i ] }

\* the SAK bytes of MIFARE Ultralight, MIFARE 1K, MIFARE 4K and ISO 14443-4
SakBytes == { 0, 8, 24, 32 }

\* cards handed to publishCard, with the outcome of each of the three reads
Cards ==
    { [ reader |-> "mfrc522", uid |-> u, sak |-> k, reads |-> r ] :
        u \in { SubSeq(PatternA, 1, 4), SubSeq(PatternA, 1, 7),
                PatternA \o <<85, 102>> },
        k \in SakBytes, r \in [ 1..3 -> ReadResults ] }

(***************************************************************************)
(* State                                                                   *)
(***************************************************************************)
VARIABLES
    millis,             \* the millisecond clock, uint32_t
    tagReadIntervalMs,  \* uint32_t
    lastTagReadMs,      \* uint32_t
    lastUid,            \* byte[MAX_UID_BYTES]
    published,          \* reports handed to publishStatus in the last poll cycle
    event,              \* what the last step was
    lastTag,            \* outcome of the last poll cycle: NoTag or an identifier
    prevTag,            \* outcome of the poll cycle before it
    held,               \* identifier reported last since the last no-tag cycle
    heldBefore,         \* held, before the last poll cycle
    gone,               \* identifier that was held when a tag was last removed
    sinceStamp,         \* real time since lastTagReadMs was last written
    gateSince,          \* sinceStamp when the last poll passed the gate
    gateInterval,       \* tagReadIntervalMs when the last poll passed the gate
    advances,           \* number of Advance steps so far
    uidBefore,          \* lastUid, before the last poll cycle
    seenLength,         \* lengths of the identifiers detected so far
    hexCall,            \* which call of toHexString is examined
    hexData,            \* the bytes handed to it
    hexBuffer,          \* the buffer it filled, empty before the call
    tagIn,              \* the tag or card handed to a report builder
    statusOut           \* the status records the builder published

vars ==
    << millis, tagReadIntervalMs, lastTagReadMs, lastUid, published, event,
       lastTag, prevTag, held, heldBefore, gone, sinceStamp, gateSince,
       gateInterval, advances, uidBefore, seenLength, hexCall, hexData,
       hexBuffer, tagIn, statusOut >>

buildVars == << tagIn, statusOut >>

hexVars == << hexCall, hexData, hexBuffer >>

progVars ==
    << millis, tagReadIntervalMs, lastTagReadMs, lastUid, published, event,
       lastTag, prevTag, held, heldBefore, gone, sinceStamp, gateSince,
       gateInterval, advances, uidBefore, seenLength >>

\* what only a poll cycle writes, besides the state of the program
cycleVars == << uidBefore, seenLength >>

(***************************************************************************)
(* toHexString                                                             *)
(***************************************************************************)
\* an implicit conversion to uint8_t
Uint8(n) == n % 256

\* the int payloadLength as the uint8_t parameter len
PayloadLen(n) == Uint8(n)

HexChar(nib) == IF nib < 10 THEN 48 + nib ELSE 65 + nib - 10

\* characters are their codes; the terminator is 0 and ends the sequence
toHexString(data, len) ==
    [ k \in 1..(2 * len + 1) |->
        IF k = 2 * len + 1 THEN 0
        ELSE IF k % 2 = 1 THEN HexChar((data[(k + 1) \div 2] \div 16) % 16)
        ELSE HexChar(data[k \div 2] % 16) ]

\* a conversion that also replaces the byte 0x1F's neighbours wrongly: the
\* control range taken as the bytes below 0x1F
toAsciiStringBelow(data, len) ==
    [ k \in 1..(len + 1) |->
        IF k = len + 1 THEN 0
        ELSE IF data[k] < 31 THEN 46
        ELSE data[k] ]

\* characters are their codes, '.' is 46; the terminator is 0
toAsciiString(data, len) ==
    [ k \in 1..(len + 1) |->
        IF k = len + 1 THEN 0
        ELSE IF data[k] <= 31 THEN 46
        ELSE data[k] ]

\* the C string in a buffer: the characters before the first terminator
CString(buf) ==
    LET n == CHOOSE i \in 1..Len(buf) :
                 buf[i] = 0 /\ \A j \in 1..(i - 1) : buf[j] # 0
    IN  SubSeq(buf, 1, n - 1)

(***************************************************************************)
(* processPN532                                                            *)
(***************************************************************************)
\* a memset that stops one byte short
memset0Short(buf, n) ==
    [ i \in 1..MAX_UID_BYTES |-> IF i <= n - 1 THEN 0 ELSE buf[i] ]

memset0(buf, n) == [ i \in 1..MAX_UID_BYTES |-> IF i <= n THEN 0 ELSE buf[i] ]

\* a comparison that leaves out the last byte
memcmp0Short(a, b, n) == \A i \in 1..(n - 1) : a[i] = b[i]

memcmp0(a, b, n) == \A i \in 1..n : a[i] = b[i]

\* a copy that leaves out the last byte
memcpyShort(dst, src, n) ==
    [ i \in 1..MAX_UID_BYTES |-> IF i <= n - 1 THEN src[i] ELSE dst[i] ]

\* a copy that clears the rest of the destination
memcpyPad(dst, src, n) ==
    [ i \in 1..MAX_UID_BYTES |-> IF i <= n THEN src[i] ELSE 0 ]

memcpy(dst, src, n) == [ i \in 1..MAX_UID_BYTES |-> IF i <= n THEN src[i] ELSE dst[i] ]

\* the status record publishTag builds for a tag without a message
publishTag(uid) == [ uid |-> CString(toHexString(uid, Uint8(Len(uid)))) ]

\* ndefRecord.getPayload(payload): payloadLength bytes from the place of the
\* payload in the message buffer, whatever lies there
getPayload(r, stray) ==
    [ i \in 1..r.claimed |-> IF i <= Len(r.bytes) THEN r.bytes[i] ELSE stray ]

\* the object publishTag adds to "records" for one record of the message
recordJson(r, stray) ==
    LET payload == getPayload(r, stray)
    IN  [ tnf |-> r.tnf, type |-> r.type, id |-> r.id, bytes |-> r.size,
          payload |->
            [ hex |-> CString(toHexString(payload, PayloadLen(r.claimed))),
              ascii |-> CString(toAsciiString(payload, PayloadLen(r.claimed))) ] ]

\* the status record publishTag builds for a tag, message included
publishTagMessage(tag, stray) ==
    LET uid == CString(toHexString(tag.uid, Uint8(Len(tag.uid))))
    IN  IF tag.hasNdef
        THEN [ uid |-> uid, type |-> tag.type,
               records |-> [ i \in 1..Len(tag.records) |->
                               recordJson(tag.records[i], stray) ] ]
        ELSE [ uid |-> uid, type |-> tag.type ]

(***************************************************************************)
(* readData_MIFARE_UL and publishCard (MFRC522 firmware)                   *)
(***************************************************************************)
\* mfrc522.PICC_GetType(uid.sak)
PICC_GetType(sak) ==
    IF sak = 0 THEN "MIFARE_UL"
    ELSE IF sak = 8 THEN "MIFARE_1K"
    ELSE IF sak = 24 THEN "MIFARE_4K"
    ELSE IF sak = 32 THEN "ISO_14443_4"
    ELSE "UNKNOWN"

\* the two inner loops: data[dataCount++] = buffer[4 * i + j]
CopyBlock(buffer) ==
    [ k \in 1..16 |-> buffer[4 * ((k - 1) \div 4) + ((k - 1) % 4) + 1] ]

\* a reader that goes on with the next block after a failed read
RECURSIVE readPagesOn(_, _, _)
readPagesOn(reads, page, data) ==
    IF page > 15 THEN data
    ELSE LET buffer == reads[page \div 4]
         IN  IF buffer = ReadFail
             THEN readPagesOn(reads, page + 4, data)
             ELSE readPagesOn(reads, page + 4, data \o CopyBlock(buffer))

readData_MIFARE_UL_On(reads) == readPagesOn(reads, 4, <<>>)

\* for (byte page = 4; page <= 15; page += 4), with the break on a failure
RECURSIVE readPages(_, _, _)
readPages(reads, page, data) ==
    IF page > 15 THEN data
    ELSE LET buffer == reads[page \div 4]
         IN  IF buffer = ReadFail
             THEN data
             ELSE readPages(reads, page + 4, data \o CopyBlock(buffer))

readData_MIFARE_UL(reads) == readPages(reads, 4, <<>>)

\* the status record publishCard builds
publishCard(card) ==
    LET type == PICC_GetType(card.sak)
        data == IF type = "MIFARE_UL" THEN readData_MIFARE_UL(card.reads)
                ELSE <<>>
    IN  [ sak |-> card.sak,
          type |-> type,
          uid |-> CString(toHexString(card.uid, Len(card.uid))),
          data |-> CString(toHexString(data, Len(data))) ]

\* one poll cycle: the new lastUid and the reports published
processPN532(buf, tag) ==
    IF tag = NoTag
    THEN [ lastUid |-> memset0(buf, MAX_UID_BYTES), published |-> <<>> ]
    ELSE IF memcmp0(tag, buf, Len(tag))
    THEN [ lastUid |-> buf, published |-> <<>> ]
    ELSE [ lastUid |-> memcpy(buf, tag, Len(tag)),
           published |-> << publishTag(tag) >> ]

\* the lengths of the identifiers detected so far: NoLength before the first,
\* {n} while all had n bytes and a non-zero byte, MixedLength once two
\* lengths or an all-zero identifier were seen
NoLength == {}

MixedLength == {0}

NextLength(seen, tag) ==
    IF tag = NoTag THEN seen
    ELSE IF \A i \in 1..Len(tag) : tag[i] = 0 THEN MixedLength
    ELSE IF seen = NoLength \/ seen = {Len(tag)} THEN {Len(tag)}
    ELSE MixedLength

(***************************************************************************)
(* loop and jsonConfig                                                     *)
(***************************************************************************)
\* a gate that opens as soon as the interval has passed
GateAtInterval(now, last, interval) == Geq32(Sub32(now, last), interval)

\* if ((millis() - lastTagReadMs) > tagReadIntervalMs)
Gate(now, last, interval) == Gt32(Sub32(now, last), interval)

\* a timer that moves on by one interval, so that missed polls are caught up
StampCatchUp(now, last, interval) == Add32(last, interval)

\* lastTagReadMs = millis()
Stamp(now, last, interval) == now

\* json["tagReadIntervalMs"].as<uint32_t>(), for a value from 0 to 2^32 - 1
jsonValue(old, v) == v

ProgInit ==
    /\ millis = FromInt(SETUP_DELAY_MS)
    /\ tagReadIntervalMs = FromInt(DEFAULT_TAG_READ_INTERVAL_MS)
    /\ lastTagReadMs = FromInt(0)
    /\ lastUid = [ i \in 1..MAX_UID_BYTES |-> 0 ]
    /\ published = <<>>
    /\ event = "setup"
    /\ lastTag = NoTag
    /\ prevTag = NoTag
    /\ held = NoTag
    /\ heldBefore = NoTag
    /\ gone = NoTag
    /\ sinceStamp = Real(FromInt(SETUP_DELAY_MS), FALSE)
    /\ gateSince = Real(FromInt(0), FALSE)
    /\ gateInterval = FromInt(0)
    /\ advances = 0
    /\ uidBefore = [ i \in 1..MAX_UID_BYTES |-> 0 ]
    /\ seenLength = NoLength

\* no report builder is examined
BuildIdle ==
    /\ tagIn = [ reader |-> "none" ]
    /\ statusOut = <<>>

\* no call of the codec is examined
HexIdle ==
    /\ hexCall = "none"
    /\ hexData = <<>>
    /\ hexBuffer = <<>>

Init ==
    /\ ProgInit
    /\ HexIdle
    /\ BuildIdle

\* time passes between two steps
AdvanceBy(D, max) ==
    /\ advances < max
    /\ \E d \in D :
        /\ millis' = Add32(millis, d)
        /\ sinceStamp' = AddReal(sinceStamp, d)
    /\ advances' = advances + 1
    /\ event' = "advance"
    /\ UNCHANGED << hexVars, buildVars, cycleVars, tagReadIntervalMs, lastTagReadMs, lastUid, published,
                    lastTag, prevTag, held, heldBefore, gone, gateSince,
                    gateInterval >>

\* loop(), the timer has expired: one poll cycle, then the timer is reset
LoopPollOf(T, P) ==
    /\ Gate(millis, lastTagReadMs, tagReadIntervalMs)
    /\ \E tag \in T \cup {NoTag}, dur \in P :
        LET r == processPN532(lastUid, tag)
            after == Add32(millis, dur)
        IN  /\ lastUid' = r.lastUid
            /\ published' = r.published
            /\ millis' = after
            /\ lastTagReadMs' = Stamp(after, lastTagReadMs, tagReadIntervalMs)
            /\ prevTag' = lastTag
            /\ lastTag' = tag
            /\ heldBefore' = held
            /\ held' = IF tag = NoTag THEN NoTag
                       ELSE IF r.published # <<>> THEN tag
                       ELSE held
            /\ gone' = IF tag = NoTag /\ held # NoTag THEN held ELSE gone
            /\ seenLength' = NextLength(seenLength, tag)
    /\ uidBefore' = lastUid
    /\ gateSince' = sinceStamp
    /\ gateInterval' = tagReadIntervalMs
    /\ sinceStamp' = Real(FromInt(0), FALSE)
    /\ event' = "poll"
    /\ UNCHANGED << hexVars, buildVars, tagReadIntervalMs, advances >>

\* loop(), the timer has not expired: nothing is done
LoopSkip ==
    /\ ~ Gate(millis, lastTagReadMs, tagReadIntervalMs)
    /\ event' = "skip"
    /\ UNCHANGED << hexVars, buildVars, cycleVars, millis, tagReadIntervalMs, lastTagReadMs, lastUid,
                    published, lastTag, prevTag, held, heldBefore, gone,
                    sinceStamp, gateSince, gateInterval, advances >>

\* a configuration that also restarts the timer
ConfigSetRestart ==
    /\ \E v \in ConfigValues :
        tagReadIntervalMs' = jsonValue(tagReadIntervalMs, v)
    /\ lastTagReadMs' = millis
    /\ sinceStamp' = Real(FromInt(0), FALSE)
    /\ event' = "config"
    /\ UNCHANGED << hexVars, buildVars, cycleVars, millis, lastUid, published, lastTag,
                    prevTag, held, heldBefore, gone, gateSince,
                    gateInterval, advances >>

\* jsonConfig with a message that has the key
ConfigSet ==
    /\ \E v \in ConfigValues :
        tagReadIntervalMs' = jsonValue(tagReadIntervalMs, v)
    /\ event' = "config"
    /\ UNCHANGED << hexVars, buildVars, cycleVars, millis, lastTagReadMs, lastUid, published, lastTag,
                    prevTag, held, heldBefore, gone, sinceStamp, gateSince,
                    gateInterval, advances >>

\* jsonConfig with a message that lacks the key
ConfigOther ==
    /\ event' = "config"
    /\ UNCHANGED << hexVars, buildVars, cycleVars, millis, tagReadIntervalMs, lastTagReadMs, lastUid,
                    published, lastTag, prevTag, held, heldBefore, gone,
                    sinceStamp, gateSince, gateInterval, advances >>

(***************************************************************************)
(* Spec: the whole program with every timing and configuration input and   *)
(* one tag.  SpecDedup: the whole program with every tag, ticking          *)
(* regularly and never reconfigured.                                       *)
(***************************************************************************)
Advance == AdvanceBy(Deltas, MaxAdvances)

LoopPoll == LoopPollOf(OneTag, PollDurations)

Next == Advance \/ LoopPoll \/ LoopSkip \/ ConfigSet \/ ConfigOther

Spec == Init /\ [][Next]_vars

Tick == AdvanceBy(RegularDelta, MaxTicks)

LoopPollTags == LoopPollOf(Tags, {FromInt(0)})

NextDedup == Tick \/ LoopPollTags \/ LoopSkip

SpecDedup == Init /\ [][NextDedup]_vars

(***************************************************************************)
(* SpecHex: the calls of toHexString made by the report builders, one call *)
(* per behaviour, on an input drawn by the initial state.                  *)
(***************************************************************************)
InitHex ==
    /\ ProgInit
    /\ BuildIdle
    /\ hexBuffer = <<>>
    /\ \/ hexCall = "uid" /\ hexData \in HexUids
       \/ hexCall = "payload" /\ hexData \in HexPayloads
       \/ hexCall = "data" /\ hexData \in HexBlocks
       \/ hexCall = "ascii" /\ hexData \in HexPayloads

\* publishTag: json["uid"] = toHexString(buffer, uid, tag->getUidLength())
EncodeUid ==
    /\ hexCall = "uid" /\ hexBuffer = <<>>
    /\ hexBuffer' = toHexString(hexData, Uint8(Len(hexData)))
    /\ UNCHANGED << progVars, buildVars, hexCall, hexData >>

\* publishTag: payloadJson["hex"] = toHexString(buffer, payload, payloadLength)
EncodePayload ==
    /\ hexCall = "payload" /\ hexBuffer = <<>>
    /\ hexBuffer' = toHexString(hexData, PayloadLen(Len(hexData)))
    /\ UNCHANGED << progVars, buildVars, hexCall, hexData >>

\* publishCard: json["data"] = toHexString(buffer, data, data_len)
EncodeData ==
    /\ hexCall = "data" /\ hexBuffer = <<>>
    /\ hexBuffer' = toHexString(hexData, Len(hexData))
    /\ UNCHANGED << progVars, buildVars, hexCall, hexData >>

\* publishTag: payloadJson["ascii"] = toAsciiString(buffer, payload, payloadLength)
EncodeAscii ==
    /\ hexCall = "ascii" /\ hexBuffer = <<>>
    /\ hexBuffer' = toAsciiString(hexData, PayloadLen(Len(hexData)))
    /\ UNCHANGED << progVars, buildVars, hexCall, hexData >>

NextHex == EncodeUid \/ EncodePayload \/ EncodeData \/ EncodeAscii

SpecHex == InitHex /\ [][NextHex]_vars

(***************************************************************************)
(* SpecReport: the report builders publishTag and publishCard, one call    *)
(* per behaviour, on a tag or card drawn by the initial state.             *)
(***************************************************************************)
InitReport ==
    /\ ProgInit
    /\ HexIdle
    /\ statusOut = <<>>
    /\ tagIn \in NfcTags \cup Cards
    /\ tagIn.reader = "pn532" => (tagIn.hasNdef \/ tagIn.records = <<>>)

\* publishTag(&tag)
PublishTag ==
    /\ tagIn.reader = "pn532" /\ statusOut = <<>>
    /\ \E stray \in StrayBytes :
        statusOut' = << publishTagMessage(tagIn, stray) >>
    /\ UNCHANGED << progVars, hexVars, tagIn >>

\* publishCard(mfrc522.uid)
PublishCard ==
    /\ tagIn.reader = "mfrc522" /\ statusOut = <<>>
    /\ statusOut' = << publishCard(tagIn) >>
    /\ UNCHANGED << progVars, hexVars, tagIn >>

NextReport == PublishTag \/ PublishCard

SpecReport == InitReport /\ [][NextReport]_vars

(***************************************************************************)
(* Claims about the dedup tracker                                          *)
(***************************************************************************)
Zeros == [ i \in 1..MAX_UID_BYTES |-> 0 ]

\* C1: in a maximal run of consecutive poll cycles that detect the same
\* identifier, the first cycle publishes exactly one report and the later
\* cycles publish none.  (lastTag is the identifier of the last cycle, prevTag
\* that of the cycle before: the last cycle is the first of its run exactly
\* when they differ.)
C1_OneReportPerRun ==
    lastTag # NoTag =>
        IF prevTag = lastTag THEN published = <<>> ELSE Len(published) = 1

\* C2: when the identifier that was held when the tag was removed is detected
\* again after one or more no-tag cycles, that cycle publishes exactly one
\* report with the same uid string, and the following cycles of the same
\* presentation publish none.
C2_ReportAfterReturn ==
    /\ (prevTag = NoTag /\ lastTag # NoTag /\ lastTag = gone)
           => published = << publishTag(gone) >>
    /\ (lastTag # NoTag /\ lastTag = gone /\ prevTag = lastTag)
           => published = <<>>

\* C3: in state Holding(id), a poll cycle that detects an identifier that
\* differs from id stores the new identifier and publishes exactly one report
\* for it in that cycle.
C3_SwapReported ==
    (heldBefore # NoTag /\ lastTag # NoTag /\ lastTag # heldBefore) =>
        /\ published = << publishTag(lastTag) >>
        /\ SubSeq(lastUid, 1, Len(lastTag)) = lastTag
        /\ held = lastTag

\* C4: in state Idle (at startup or after a no-tag cycle), the first poll
\* cycle that detects a tag publishes a report for it and moves to Holding,
\* whatever the bytes of the identifier are, all zero included.
C4_IdleFirstRead ==
    (prevTag = NoTag /\ lastTag # NoTag) =>
        /\ published = << publishTag(lastTag) >>
        /\ held = lastTag

\* C5: an identifier whose length differs from that of the held identifier is
\* reported when it replaces the held tag, also when one is a prefix of the
\* other.
C5_LengthDistinct ==
    (heldBefore # NoTag /\ prevTag = heldBefore /\ lastTag # NoTag
        /\ Len(lastTag) # Len(heldBefore))
    => Len(published) = 1

\* C6: after a poll cycle that detects no tag, whatever the state before it,
\* all MAX_UID_BYTES bytes of lastUid are zero, the tracker is Idle and the
\* cycle published no report.
C6_NoTagIdle ==
    (event = "poll" /\ lastTag = NoTag) =>
        /\ lastUid = Zeros
        /\ held = NoTag
        /\ published = <<>>

\* a no-tag cycle that ended the holding of an identifier of the full length
C6_Witness ==
    /\ event = "poll"
    /\ lastTag = NoTag
    /\ Len(heldBefore) = MAX_UID_BYTES
    /\ \A i \in 1..MAX_UID_BYTES : heldBefore[i] # 0

(***************************************************************************)
(* Claims about the configuration and the poll scheduler                   *)
(***************************************************************************)
\* C7: tagReadIntervalMs is within [0, SCHEMA_MAXIMUM] in every reachable
\* state: a configuration update with a value outside the range is rejected
\* and the interval keeps its value.
C7_IntervalInRange == ~ Gt32(tagReadIntervalMs, FromInt(SCHEMA_MAXIMUM))

\* C8: when a poll starts, the real time that passed since lastTagReadMs was
\* written (by the poll before, or since the start for the first poll) is
\* strictly more than the tagReadIntervalMs in force at that tick.
C8_NoEarlyPoll == event = "poll" => RealGt(gateSince, gateInterval)

\* a second poll, one millisecond after the first, with interval 0
C8_Witness ==
    /\ event = "poll"
    /\ prevTag # NoTag
    /\ gateInterval = FromInt(0)
    /\ gateSince = Real(FromInt(1), FALSE)

\* C9: a loop() tick that polls sets lastTagReadMs to the current time,
\* however much time had passed and whatever the poll detected or published,
\* so a tick that follows with no time passed does not poll.
C9_NoBacklog ==
    event = "poll" =>
        /\ lastTagReadMs = millis
        /\ ~ Gate(millis, lastTagReadMs, tagReadIntervalMs)

\* a poll started more than two whole intervals late that detected a tag and
\* published nothing
C9_Witness ==
    /\ event = "poll"
    /\ gateInterval = FromInt(DEFAULT_TAG_READ_INTERVAL_MS)
    /\ RealGt(gateSince, FromInt(2 * DEFAULT_TAG_READ_INTERVAL_MS))
    /\ lastTag # NoTag
    /\ published = <<>>

(***************************************************************************)
(* Claims about toHexString                                                *)
(***************************************************************************)
HexDigits == (48..57) \cup (65..70)

\* the value of a hex digit
DigitValue(c) == IF c <= 57 THEN c - 48 ELSE c - 65 + 10

\* the calls of toHexString
HexCalls == { "uid", "payload", "data" }

\* C10: for the n bytes handed to toHexString by a report builder, the string
\* produced has exactly 2n characters, each '0'-'9' or 'A'-'F', the
\* characters 2i and 2i+1 being the high and the low nibble of byte i, and
\* one terminator follows them.
C10_HexShape ==
    (hexCall \in HexCalls /\ hexBuffer # <<>>) =>
        LET n == Len(hexData) IN
        /\ Len(hexBuffer) >= 2 * n + 1
        /\ hexBuffer[2 * n + 1] = 0
        /\ \A i \in 1..n :
            /\ hexBuffer[2 * i - 1] \in HexDigits
            /\ hexBuffer[2 * i] \in HexDigits
            /\ DigitValue(hexBuffer[2 * i - 1]) = hexData[i] \div 16
            /\ DigitValue(hexBuffer[2 * i]) = hexData[i] % 16

\* pairs of uppercase hex digits to bytes
HexDecode(str) ==
    [ i \in 1..(Len(str) \div 2) |->
        16 * DigitValue(str[2 * i - 1]) + DigitValue(str[2 * i]) ]

\* C11: decoding the string produced by toHexString for the bytes b gives b
\* again (so two different byte sequences never give the same string).
C11_HexRoundTrip ==
    (hexCall \in HexCalls /\ hexBuffer # <<>>) =>
        HexDecode(CString(hexBuffer)) = hexData

C16_FullLength ==
    (lastTag # NoTag /\ Len(lastTag) = MAX_UID_BYTES) =>
        /\ DOMAIN lastTag = DOMAIN lastUid
        /\ DOMAIN lastTag = DOMAIN uidBefore
        /\ (published = <<>>) <=> (uidBefore = lastTag)
        /\ lastUid = lastTag
        /\ published # <<>> =>
            /\ Len(published) = 1
            /\ Len(published[1].uid) = 2 * MAX_UID_BYTES
            /\ HexDecode(published[1].uid) = lastTag

\* an 8-byte identifier replaced by one that differs in the last byte only
C16_Witness ==
    /\ lastTag = PatternD
    /\ prevTag = PatternA
    /\ uidBefore = PatternA
    /\ published # <<>>

\* the two-state tracker of the design: Idle is NoTag, Holding(id) is id; it
\* compares whole identifiers
AbstractTracker(state, tag) ==
    [ state |-> tag,
      reports |-> IF tag # NoTag /\ tag # state THEN << tag >> ELSE <<>> ]

\* C18: while all the identifiers detected had one common length and none was
\* all zero, each poll cycle publishes what the abstract tracker reports: in
\* the same cycles, the same identifiers.  (The abstract state after a cycle
\* is the outcome of that cycle, so before the last cycle it was prevTag.)
C18_RefinesTracker ==
    (seenLength # NoLength /\ seenLength # MixedLength) =>
        LET a == AbstractTracker(prevTag, lastTag) IN
        /\ Len(published) = Len(a.reports)
        /\ \A i \in 1..Len(published) :
               HexDecode(published[i].uid) = a.reports[i]
        /\ held = a.state

\* a 7-byte identifier replaced by another 7-byte identifier and reported
C18_Witness ==
    /\ seenLength = {7}
    /\ prevTag # NoTag
    /\ lastTag # NoTag
    /\ prevTag # lastTag
    /\ published # <<>>

\* C19: a cycle that detects an identifier of n bytes leaves the bytes n..7
\* of lastUid as they were; if it accepts the identifier, the bytes 0..n-1
\* are those of the identifier.  A no-tag cycle zeroes all 8 bytes.
C19_TailKept ==
    /\ lastTag # NoTag =>
          \A i \in (Len(lastTag) + 1)..MAX_UID_BYTES : lastUid[i] = uidBefore[i]
    /\ (lastTag # NoTag /\ published # <<>>) =>
          \A i \in 1..Len(lastTag) : lastUid[i] = lastTag[i]
    /\ (event = "poll" /\ lastTag = NoTag) => lastUid = Zeros

\* a 4-byte identifier accepted over the bytes of a longer one
C19_Witness ==
    /\ Len(lastTag) = 4
    /\ published # <<>>
    /\ \A i \in 5..7 : lastUid[i] # 0 /\ lastUid[i] = uidBefore[i]

(***************************************************************************)
(* Claims about the configuration callback and the clock                   *)
(***************************************************************************)
\* C17: a configuration callback leaves lastUid and lastTagReadMs (and with
\* them the reports and the held identifier) as they are, and only a poll
\* cycle changes lastUid or lastTagReadMs.
C17_ConfigFrame ==
    [][ /\ event' = "config" =>
              /\ lastUid' = lastUid
              /\ lastTagReadMs' = lastTagReadMs
              /\ published' = published
              /\ held' = held
        /\ (lastUid' # lastUid \/ lastTagReadMs' # lastTagReadMs) =>
              event' = "poll" ]_vars

\* a configuration that changed the interval between two polls, while a tag
\* is held
C17_Witness ==
    /\ event = "config"
    /\ tagReadIntervalMs # FromInt(DEFAULT_TAG_READ_INTERVAL_MS)
    /\ held # NoTag
    /\ lastTagReadMs # FromInt(0)

\* the clock wrapped around since lastTagReadMs was written
Wrapped == sinceStamp.over \/ Gt32(lastTagReadMs, millis)

Malformed(r) == r.claimed > Len(r.bytes)

\* C13: publishTag publishes the report of a tag whose message has a
\* malformed record, leaves that record out of "records" and keeps every
\* record before it, in order.
C13_MalformedOmitted ==
    (tagIn.reader = "pn532" /\ tagIn.hasNdef /\ statusOut # <<>>) =>
        LET recs == tagIn.records
            out == statusOut[1].records
            sound == { i \in 1..Len(recs) : ~ Malformed(recs[i]) }
        IN  /\ Len(statusOut) = 1
            /\ Len(out) <= Cardinality(sound)
            /\ \A i \in 1..Len(recs) :
                  (\A j \in 1..i : ~ Malformed(recs[j])) =>
                      /\ i <= Len(out)
                      /\ out[i] = recordJson(recs[i], 0)

\* C14: the status record publishCard builds has the "data" field for the
\* tag type MIFARE Ultralight and for no other tag type.
C14_DataOnlyForUL ==
    (tagIn.reader = "mfrc522" /\ statusOut # <<>>) =>
        ("data" \in DOMAIN statusOut[1]
            <=> PICC_GetType(tagIn.sak) = "MIFARE_UL")

\* the number of blocks read before the first failed read
BlocksRead(reads) ==
    IF reads[1] = ReadFail THEN 0
    ELSE IF reads[2] = ReadFail THEN 1
    ELSE IF reads[3] = ReadFail THEN 2
    ELSE 3

\* C15: when MIFARE_Read fails on block k (k = 0, 1 or 2) of a MIFARE
\* Ultralight, the data of the report are exactly the 16 * k bytes of the
\* blocks read before, in page order, and the report is published with the
\* uid and the type of the tag.
C15_TruncatedRead ==
    (tagIn.reader = "mfrc522" /\ statusOut # <<>>
        /\ PICC_GetType(tagIn.sak) = "MIFARE_UL") =>
        LET k == BlocksRead(tagIn.reads)
            d == HexDecode(statusOut[1].data)
        IN  /\ Len(statusOut) = 1
            /\ Len(d) = 16 * k
            /\ \A b \in 1..k : \A i \in 1..16 :
                  d[16 * (b - 1) + i] = tagIn.reads[b][i]
            /\ HexDecode(statusOut[1].uid) = tagIn.uid
            /\ statusOut[1].type = "MIFARE_UL"

\* a report of a MIFARE Ultralight whose second read failed and whose third
\* read would have succeeded
C15_Witness ==
    /\ tagIn.reader = "mfrc522"
    /\ statusOut # <<>>
    /\ PICC_GetType(tagIn.sak) = "MIFARE_UL"
    /\ tagIn.reads[1] # ReadFail
    /\ tagIn.reads[2] = ReadFail
    /\ tagIn.reads[3] # ReadFail

TypeOK == advances \in 0..(MaxAdvances + MaxTicks)
====
